---- MODULE Spec2Model ----
(***************************************************************************)
(* Model of the quant-trading-skill search core: the BM25 ranking engine   *)
(* (internal/bm25/bm25.go) and the domain search service (package search). *)
(*                                                                         *)
(* A text is a sequence of one-character strings.  A float64 is a record   *)
(* [nan, v]: v is the value in units of 1/10000, nan marks a NaN.          *)
(***************************************************************************)
EXTENDS Integers, Sequences, FiniteSets, TLC

VARIABLES
    text,      \* Tokenize: the input text
    tokens,    \* Tokenize: [done, val], the returned token sequence
    dquery,    \* DetectDomain: the query of the last call
    dout,      \* DetectDomain: [done, val], the domain the last call returned
    dprev,     \* DetectDomain: what the call before this one returned
    bm,        \* the BM25 engine: k1, b, corpus, docLengths, avgdl, idf, docFreqs, N
    fitted,    \* the document collections passed to Fit since New, in order
    ranked,    \* Score: [kind, val], what the last Score call returned
    squery,    \* Score: the query of the last call
    sfirst,    \* Score: [made, query, out], the first call since the engine was last fitted
    store,     \* the record store: file name -> [exists, records]
    sortTies,  \* the order in which this build's sort.Slice leaves elements that compare equal
    call,      \* Search: the arguments of the last call
    out,       \* Search: the outcome of the last call
    prev       \* Search: the outcome of the call before this one

vars == <<text, tokens, dquery, dout, dprev, bm, fitted, ranked, squery, sfirst, store,
          sortTies, call, out, prev>>

tokVars    == <<text, tokens>>
detVars    == <<dquery, dout, dprev>>
engineVars == <<bm, fitted, ranked, squery, sfirst>>
searchVars == <<store, sortTies, call, out, prev>>

-----------------------------------------------------------------------------
(* Bounds *)

MaxPieces   == 4    \* pieces concatenated into a Tokenize input
MaxWords    == 2    \* words in a DetectDomain query
MaxDocs     == 2    \* documents in a collection passed to Fit
MaxFits     == 2    \* Fit calls on one engine
MaxRows     == 2    \* data rows of a dataset file
MaxResults  == 2    \* largest maxResults passed to Search

-----------------------------------------------------------------------------
(* Characters and strings *)

UpperChars == <<"A", "B", "C", "D", "E", "F", "G", "H", "I", "J", "K", "L", "M",
                "N", "O", "P", "Q", "R", "S", "T", "U", "V", "W", "X", "Y", "Z">>
LowerChars == <<"a", "b", "c", "d", "e", "f", "g", "h", "i", "j", "k", "l", "m",
                "n", "o", "p", "q", "r", "s", "t", "u", "v", "w", "x", "y", "z">>
DigitChars == {"0", "1", "2", "3", "4", "5", "6", "7", "8", "9"}

Range(s) == {s[i] : i \in 1..Len(s)}

\* the function f, evaluated once at every argument
Eager(f) == IF f = <<>> THEN <<>> ELSE f

\* unicode.ToLower on the upper-case letters
LowerOf == Eager([c \in Range(UpperChars) |->
                    LowerChars[CHOOSE i \in 1..Len(UpperChars) : UpperChars[i] = c]])

\* unicode.ToLower on one character
ToLowerChar(c) == IF c \in DOMAIN LowerOf THEN LowerOf[c] ELSE c

\* strings.ToLower
ToLower(s) == Eager([i \in 1..Len(s) |-> ToLowerChar(s[i])])

\* the regexp class \w: [0-9A-Za-z_]
WordChars == Range(UpperChars) \cup Range(LowerChars) \cup DigitChars \cup {"_"}

\* the regexp class \s: [\t\n\f\r ]
ReSpaceChars == {" ", "\t", "\n", "\f", "\r"}

\* unicode.IsSpace, which strings.Fields splits on (the ASCII part)
SpaceChars == {" ", "\t", "\n", "\f", "\r"}

IsWordChar(c) == c \in WordChars
IsReSpace(c)  == c \in ReSpaceChars
IsSpace(c)    == c \in SpaceChars

\* regexp `[^\w\s]` ReplaceAllString(_, " ")
ReplacePunct(s) ==
    Eager([i \in 1..Len(s) |-> IF IsWordChar(s[i]) \/ IsReSpace(s[i]) THEN s[i] ELSE " "])

\* strings.Fields
RECURSIVE FieldsFrom(_, _, _, _)
FieldsFrom(s, i, cur, acc) ==
    IF i > Len(s)
    THEN IF cur = <<>> THEN acc ELSE Append(acc, cur)
    ELSE IF IsSpace(s[i])
         THEN FieldsFrom(s, i + 1, <<>>, IF cur = <<>> THEN acc ELSE Append(acc, cur))
         ELSE FieldsFrom(s, i + 1, Append(cur, s[i]), acc)

Fields(s) == FieldsFrom(s, 1, <<>>, <<>>)

\* A seeded fault: keeps the words of length 2.
TokenizeKeepsShort(str) ==
    SelectSeq(Fields(ReplacePunct(ToLower(str))), LAMBDA w : Len(w) > 1)

\* BM25.Tokenize
Tokenize(str) ==
    SelectSeq(Fields(ReplacePunct(ToLower(str))), LAMBDA w : Len(w) > 2)

\* strings.Contains
Contains(s, sub) ==
    \E i \in 0..(Len(s) - Len(sub)) : SubSeq(s, i + 1, i + Len(sub)) = sub

\* strings.Join(parts, " ")
RECURSIVE JoinFrom(_, _)
JoinFrom(parts, i) ==
    IF i > Len(parts) THEN <<>>
    ELSE IF i = Len(parts) THEN parts[i]
    ELSE parts[i] \o <<" ">> \o JoinFrom(parts, i + 1)

Join(parts) == JoinFrom(parts, 1)

RECURSIVE Concat(_)
Concat(ss) == IF ss = <<>> THEN <<>> ELSE Head(ss) \o Concat(Tail(ss))

\* all sequences over S of length 0..n
SeqsUpTo(S, n) == UNION {[1..k -> S] : k \in 0..n}

-----------------------------------------------------------------------------
(* float64 values and the rationals the engine's constants are *)

Fl(x) == [nan |-> FALSE, v |-> x]
NaN   == [nan |-> TRUE, v |-> 0]

\* a > b and a <= b on float64: every comparison with a NaN is false
FGt(a, b) == ~a.nan /\ ~b.nan /\ a.v > b.v
FLe(a, b) == ~a.nan /\ ~b.nan /\ a.v <= b.v

\* a + b on float64
FAdd(a, b) == IF a.nan \/ b.nan THEN NaN ELSE Fl(a.v + b.v)

RECURSIVE GCD(_, _)
GCD(a, b) == IF b = 0 THEN a ELSE GCD(b, a % b)

\* the rational n/d in lowest terms (d > 0, n >= 0)
Rat(n, d) == LET g == GCD(n, d) IN [n |-> n \div g, d |-> d \div g]

\* math.Log on the integers 1..40, in units of 1/10000
LnTable ==
    <<0, 6931, 10986, 13863, 16094, 17918, 19459, 20794, 21972, 23026,
      23979, 24849, 25649, 26391, 27081, 27726, 28332, 28904, 29444, 29957,
      30445, 30910, 31355, 31781, 32189, 32581, 32958, 33322, 33673, 34012,
      34340, 34657, 34965, 35264, 35553, 35835, 36109, 36376, 36636, 36889>>

\* math.Log(n/d)
Log(n, d) == Fl(LnTable[n] - LnTable[d])

-----------------------------------------------------------------------------
(* The ranking engine: internal/bm25/bm25.go *)

\* bm25.New
New(k1, b) ==
    [k1 |-> k1, b |-> b, corpus |-> <<>>, docLengths |-> <<>>, avgdl |-> Rat(0, 1),
     idf |-> <<>>, docFreqs |-> <<>>, N |-> 0]

RECURSIVE SumSeq(_)
SumSeq(s) == IF s = <<>> THEN 0 ELSE Head(s) + SumSeq(Tail(s))

\* A seeded fault: the unsmoothed IDF ln((N - df + 0.5) / (df + 0.5)).
IdfUnsmoothed(N, freq) == Log(2 * (N - freq) + 1, 2 * freq + 1)

\* math.Log((float64(N-freq)+0.5)/(float64(freq)+0.5) + 1.0), the halves doubled away
Idf(N, freq) == Log((2 * (N - freq) + 1) + (2 * freq + 1), 2 * freq + 1)

\* BM25.Fit
Fit(e, documents) ==
    LET N          == Len(documents)
        corpus     == Eager([i \in 1..N |-> Tokenize(documents[i])])
        docLengths == Eager([i \in 1..N |-> Len(corpus[i])])
        totalLen   == SumSeq(docLengths)
        words      == UNION {Range(corpus[i]) : i \in 1..N}
        docFreqs   == Eager([w \in (DOMAIN e.docFreqs) \cup words |->
                          (IF w \in DOMAIN e.docFreqs THEN e.docFreqs[w] ELSE 0)
                          + Cardinality({i \in 1..N : w \in Range(corpus[i])})])
    IN  IF N = 0
        THEN [e EXCEPT !.N = 0]
        ELSE [e EXCEPT !.N = N,
                       !.corpus = corpus,
                       !.docLengths = docLengths,
                       !.avgdl = Rat(totalLen, N),
                       !.docFreqs = docFreqs,
                       !.idf = Eager([w \in DOMAIN docFreqs |-> Idf(N, docFreqs[w])])]

\* termFreqs[token] for one document
TermFreq(doc, token) == Cardinality({j \in 1..Len(doc) : doc[j] = token})

\* A seeded fault: the term frequency is taken to be 1 whether the token occurs or not.
TermIgnoresTf(e, idf, tf, docLen) ==
    IF e.avgdl.n = 0
    THEN IF docLen = 0 THEN NaN ELSE Fl(0)
    ELSE LET num == (e.k1.n + e.k1.d) * e.b.d * e.avgdl.n
             den == e.k1.d * e.b.d * e.avgdl.n
                    + e.k1.n * (e.b.d * e.avgdl.n - e.b.n * e.avgdl.n
                                + e.b.n * docLen * e.avgdl.d)
         IN  IF idf.nan THEN NaN ELSE Fl((idf.v * num) \div den)

\* idf * numerator / denominator for one query token, where
\* numerator = tf*(k1+1) and denominator = tf + k1*(1 - b + b*docLen/avgdl)
Term(e, idf, tf, docLen) ==
    IF e.avgdl.n = 0
    THEN IF docLen = 0 THEN NaN ELSE Fl(0)      \* 0/0 is NaN; x/0 is +Inf, and y/+Inf is 0
    ELSE LET num == tf * (e.k1.n + e.k1.d) * e.b.d * e.avgdl.n
             den == tf * e.k1.d * e.b.d * e.avgdl.n
                    + e.k1.n * (e.b.d * e.avgdl.n - e.b.n * e.avgdl.n
                                + e.b.n * docLen * e.avgdl.d)
         IN  IF idf.nan THEN NaN ELSE Fl((idf.v * num) \div den)

\* the loop over queryTokens for one document
RECURSIVE DocScore(_, _, _, _, _)
DocScore(e, idx, queryTokens, i, score) ==
    IF i > Len(queryTokens) THEN score
    ELSE LET token == queryTokens[i]
         IN  IF token \in DOMAIN e.idf
             THEN DocScore(e, idx, queryTokens, i + 1,
                           FAdd(score, Term(e, e.idf[token],
                                            TermFreq(e.corpus[idx], token),
                                            e.docLengths[idx])))
             ELSE DocScore(e, idx, queryTokens, i + 1, score)

\* A seeded fault: Score counts its calls in the engine.
AfterScoreCounting(e, query) == [e EXCEPT !.N = e.N + 1]

\* the engine after BM25.Score: Score assigns to no field of bm
AfterScore(e, query) == e

\* BM25.Score: the results, or a panic when results[idx] is out of range.
\* Index is the document's position in the corpus, counted from 0.
Score(e, query) ==
    LET queryTokens == Tokenize(query)
    IN  IF Len(e.corpus) > e.N
        THEN [kind |-> "panic", val |-> <<>>]
        ELSE [kind |-> "ok",
              val  |-> Eager([i \in 1..e.N |->
                          IF i <= Len(e.corpus)
                          THEN [Index |-> i - 1,
                                Score |-> DocScore(e, i, queryTokens, 1, Fl(0))]
                          ELSE [Index |-> 0, Score |-> Fl(0)]])]

-----------------------------------------------------------------------------
(* The domain search service: package search *)

DomainNames == {"strategy", "indicator", "risk", "data", "anti-pattern"}

\* DomainConfigs
DomainConfigs ==
    Eager([domain \in DomainNames |->
        IF domain = "strategy" THEN
            [File       |-> "strategies.csv",
             SearchCols |-> <<"Strategy Name", "Category", "Keywords", "Best For",
                              "Data Requirements">>,
             OutputCols |-> <<"Strategy Name", "Category", "Keywords", "Data Requirements",
                              "Time Horizon", "Best For", "Complexity", "Key Parameters",
                              "Performance Characteristics", "Market Conditions",
                              "Capital Requirements", "Avoid For">>]
        ELSE IF domain = "indicator" THEN
            [File       |-> "indicators.csv",
             SearchCols |-> <<"Indicator Name", "Category", "Keywords", "Best For">>,
             OutputCols |-> <<"Indicator Name", "Category", "Keywords", "Formula/Description",
                              "Time-Domain", "Best For", "Parameters", "Interpretation",
                              "Limitations", "Combine With", "Avoid For">>]
        ELSE IF domain = "risk" THEN
            [File       |-> "risk-management.csv",
             SearchCols |-> <<"Risk Control", "Category", "Keywords", "Description",
                              "Best For">>,
             OutputCols |-> <<"Risk Control", "Category", "Keywords", "Description",
                              "Parameters", "Best For", "Implementation", "Advantages",
                              "Disadvantages", "Critical For">>]
        ELSE IF domain = "data" THEN
            [File       |-> "data-sources.csv",
             SearchCols |-> <<"Data Type", "Source", "Keywords", "Description", "Best For">>,
             OutputCols |-> <<"Data Type", "Source", "Keywords", "Description", "Format",
                              "Frequency", "Best For", "Requirements", "Typical Cost">>]
        ELSE
            [File       |-> "anti-patterns.csv",
             SearchCols |-> <<"Category", "Issue", "Keywords", "Description">>,
             OutputCols |-> <<"Category", "Issue", "Keywords", "Description", "Do", "Don't",
                              "Severity", "Platform">>]])

\* DomainKeywords
DomainKeywords ==
    Eager([domain \in DomainNames |->
    IF domain = "strategy" THEN <<
        <<"s", "t", "r", "a", "t", "e", "g", "y">>,
        <<"t", "r", "a", "d", "i", "n", "g">>,
        <<"a", "l", "g", "o", "r", "i", "t", "h", "m">>,
        <<"a", "r", "b", "i", "t", "r", "a", "g", "e">>,
        <<"o", "f", "i">>,
        <<"h", "a", "w", "k", "e", "s">>,
        <<"k", "a", "l", "m", "a", "n">>,
        <<"m", "o", "m", "e", "n", "t", "u", "m">>,
        <<"m", "e", "a", "n", "-", "r", "e", "v", "e", "r", "s", "i", "o", "n">>,
        <<"p", "a", "i", "r", "s">>,
        <<"m", "a", "r", "k", "e", "t", "-", "m", "a", "k", "i", "n", "g">>,
        <<"s", "t", "a", "t", "i", "s", "t", "i", "c", "a", "l">>,
        <<"e", "x", "e", "c", "u", "t", "i", "o", "n">>,
        <<"v", "w", "a", "p">>,
        <<"m", "l">>,
        <<"b", "a", "c", "k", "t", "e", "s", "t">>
    >> ELSE
    IF domain = "indicator" THEN <<
        <<"i", "n", "d", "i", "c", "a", "t", "o", "r">>,
        <<"e", "m", "a">>,
        <<"s", "m", "a">>,
        <<"r", "s", "i">>,
        <<"m", "a", "c", "d">>,
        <<"b", "o", "l", "l", "i", "n", "g", "e", "r">>,
        <<"a", "t", "r">>,
        <<"s", "t", "o", "c", "h", "a", "s", "t", "i", "c">>,
        <<"a", "d", "x">>,
        <<"v", "w", "a", "p">>,
        <<"o", "b", "v">>,
        <<"t", "c", "i">>,
        <<"s", "i", "g", "n", "a", "l">>,
        <<"o", "s", "c", "i", "l", "l", "a", "t", "o", "r">>,
        <<"m", "o", "v", "i", "n", "g", " ", "a", "v", "e", "r", "a", "g", "e">>
    >> ELSE
    IF domain = "risk" THEN <<
        <<"r", "i", "s", "k">>,
        <<"p", "o", "s", "i", "t", "i", "o", "n">>,
        <<"s", "i", "z", "i", "n", "g">>,
        <<"k", "e", "l", "l", "y">>,
        <<"s", "t", "o", "p">>,
        <<"l", "o", "s", "s">>,
        <<"d", "r", "a", "w", "d", "o", "w", "n">>,
        <<"v", "a", "r">>,
        <<"c", "v", "a", "r">>,
        <<"l", "e", "v", "e", "r", "a", "g", "e">>,
        <<"m", "a", "r", "g", "i", "n">>,
        <<"h", "e", "d", "g", "e">>,
        <<"p", "o", "r", "t", "f", "o", "l", "i", "o">>,
        <<"l", "i", "m", "i", "t">>,
        <<"e", "x", "p", "o", "s", "u", "r", "e">>
    >> ELSE
    IF domain = "data" THEN <<
        <<"d", "a", "t", "a">>,
        <<"t", "i", "c", "k">>,
        <<"o", "r", "d", "e", "r", " ", "b", "o", "o", "k">>,
        <<"l", "2">>,
        <<"o", "h", "l", "c", "v">>,
        <<"b", "a", "r", "s">>,
        <<"f", "u", "t", "u", "r", "e", "s">>,
        <<"o", "p", "t", "i", "o", "n", "s">>,
        <<"o", "n", "-", "c", "h", "a", "i", "n">>,
        <<"n", "e", "w", "s">>,
        <<"s", "e", "n", "t", "i", "m", "e", "n", "t">>,
        <<"f", "u", "n", "d", "a", "m", "e", "n", "t", "a", "l">>,
        <<"v", "o", "l", "u", "m", "e">>,
        <<"f", "e", "e", "d">>,
        <<"a", "p", "i">>
    >> ELSE
    <<
        <<"m", "i", "s", "t", "a", "k", "e">>,
        <<"e", "r", "r", "o", "r">>,
        <<"a", "v", "o", "i", "d">>,
        <<"d", "o", "n", "'", "t">>,
        <<"a", "n", "t", "i", "-", "p", "a", "t", "t", "e", "r", "n">>,
        <<"p", "i", "t", "f", "a", "l", "l">>,
        <<"b", "i", "a", "s">>,
        <<"o", "v", "e", "r", "f", "i", "t", "t", "i", "n", "g">>,
        <<"l", "o", "o", "k", "-", "a", "h", "e", "a", "d">>,
        <<"s", "u", "r", "v", "i", "v", "o", "r", "s", "h", "i", "p">>,
        <<"s", "l", "i", "p", "p", "a", "g", "e">>,
        <<"b", "u", "g">>,
        <<"w", "r", "o", "n", "g">>
    >>])

\* the score of one domain in DetectDomain: how many of its keywords the query contains
KeywordScore(queryLower, domain) ==
    Cardinality({i \in 1..Len(DomainKeywords[domain]) :
                    Contains(queryLower, DomainKeywords[domain][i])})

\* the orders in which a range over a map of the five domains can visit them
MapOrders ==
    {o \in [1..Cardinality(DomainNames) -> DomainNames] :
        \A i, j \in DOMAIN o : i # j => o[i] # o[j]}

\* A seeded fault: the first domain visited with any match wins, not the best one.
RECURSIVE BestFirstMatch(_, _, _, _)
BestFirstMatch(scores, order, i, best) ==
    IF i > Len(order) THEN best
    ELSE IF scores[order[i]] > 0 /\ best.score = 0
         THEN BestFirstMatch(scores, order, i + 1,
                             [domain |-> order[i], score |-> scores[order[i]]])
         ELSE BestFirstMatch(scores, order, i + 1, best)

\* the "Find best domain" loop of DetectDomain, visiting the scores in `order`
RECURSIVE BestFrom(_, _, _, _)
BestFrom(scores, order, i, best) ==
    IF i > Len(order) THEN best
    ELSE IF scores[order[i]] > best.score
         THEN BestFrom(scores, order, i + 1,
                       [domain |-> order[i], score |-> scores[order[i]]])
         ELSE BestFrom(scores, order, i + 1, best)

\* the first loop of DetectDomain: the score of every domain
DomainScores(query) ==
    LET queryLower == ToLower(query)
    IN  Eager([domain \in DomainNames |-> KeywordScore(queryLower, domain)])

\* A seeded fault: the fallback is a name that is no key of DomainConfigs.
DetectDomainFallbackGeneral(query) ==
    LET scores == DomainScores(query)
    IN  {LET best == BestFrom(scores, order, 1, [domain |-> "general", score |-> 0])
         IN  IF best.score = 0 THEN "general" ELSE best.domain :
         order \in MapOrders}

\* DetectDomain: every domain it can return, one for each order in which the range
\* over scores can visit the domains
DetectDomain(query) ==
    LET scores == DomainScores(query)
    IN  {LET best == BestFrom(scores, order, 1, [domain |-> "strategy", score |-> 0])
         IN  IF best.score = 0 THEN "strategy" ELSE best.domain :
         order \in MapOrders}

\* one parsed record of loadCSV: header name -> cell, for the cells the record has
RowMap(headers, record) ==
    [h \in {headers[i] : i \in 1..Len(headers) \cap 1..Len(record)} |->
        record[CHOOSE i \in 1..Len(headers) \cap 1..Len(record) :
                  /\ headers[i] = h
                  /\ \A j \in 1..Len(headers) \cap 1..Len(record) : headers[j] = h => j <= i]]

\* A seeded fault: the length check is off by one, so a header alone is accepted.
loadCSVOffByOne(file) ==
    IF ~file.exists
    THEN [err |-> "open: no such file or directory", data |-> <<>>]
    ELSE IF \E i \in 1..Len(file.records) : Len(file.records[i]) # Len(file.records[1])
    THEN [err |-> "record on line: wrong number of fields", data |-> <<>>]
    ELSE IF Len(file.records) < 1
    THEN [err |-> "CSV file too short", data |-> <<>>]
    ELSE [err  |-> "",
          data |-> Eager([i \in 1..(Len(file.records) - 1) |->
                            Eager(RowMap(file.records[1], file.records[i + 1]))])]

\* loadCSV.  os.Open fails on a missing file; csv.Reader.ReadAll, with its default
\* FieldsPerRecord = 0, fails on a record whose field count differs from the first's.
loadCSV(file) ==
    IF ~file.exists
    THEN [err |-> "open: no such file or directory", data |-> <<>>]
    ELSE IF \E i \in 1..Len(file.records) : Len(file.records[i]) # Len(file.records[1])
    THEN [err |-> "record on line: wrong number of fields", data |-> <<>>]
    ELSE IF Len(file.records) < 2
    THEN [err |-> "CSV file too short", data |-> <<>>]
    ELSE [err  |-> "",
          data |-> Eager([i \in 1..(Len(file.records) - 1) |->
                            Eager(RowMap(file.records[1], file.records[i + 1]))])]

\* the columns among `cols`, in order, that `row` has
PresentCols(cols, row) == SelectSeq(cols, LAMBDA col : col \in DOMAIN row)

\* "Build documents from search columns"
Document(config, row) ==
    LET cols == PresentCols(config.SearchCols, row)
    IN  Join([i \in 1..Len(cols) |-> row[cols[i]]])

\* A seeded fault: an output column the row lacks is given the empty string.
ProjectPadded(config, row) ==
    [col \in Range(config.OutputCols) |-> IF col \in DOMAIN row THEN row[col] ELSE <<>>]

\* the projection of a row onto the output columns
Project(config, row) ==
    [col \in {c \in Range(config.OutputCols) : c \in DOMAIN row} |-> row[col]]

\* sort.Slice with less(i, j) = ranked[i].Score > ranked[j].Score.  sort.Slice is not
\* stable: where elements that compare equal end up is up to the sort algorithm of the
\* build.  `ties` lists the Index values in the order the build leaves equal elements.
SortSlice(rs, ties) ==
    LET pos(idx)     == CHOOSE k \in 1..Len(ties) : ties[k] = idx
        Before(x, y) == \/ FGt(x.Score, y.Score)
                        \/ /\ ~FGt(y.Score, x.Score)
                           /\ pos(x.Index) < pos(y.Index)
    IN  Eager([i \in 1..Len(rs) |->
                 CHOOSE x \in Range(rs) :
                     Cardinality({y \in Range(rs) : Before(y, x)}) = i - 1])

\* A seeded fault: the loop does not stop at a score <= 0.
RECURSIVE TopKeepsZero(_, _, _, _)
TopKeepsZero(sorted, i, maxResults, picked) ==
    IF i > Len(sorted) THEN picked
    ELSE IF Len(picked) >= maxResults THEN picked
    ELSE TopKeepsZero(sorted, i + 1, maxResults, Append(picked, sorted[i].Index))

\* "Get top results with score > 0": the Index of each record taken, in order
RECURSIVE TopResults(_, _, _, _)
TopResults(sorted, i, maxResults, picked) ==
    IF i > Len(sorted) THEN picked
    ELSE IF FLe(sorted[i].Score, Fl(0)) THEN picked
    ELSE IF Len(picked) >= maxResults THEN picked
    ELSE TopResults(sorted, i + 1, maxResults, Append(picked, sorted[i].Index))

\* The outcome of a Search call.  kind is "result" (a Result and a nil error), "error"
\* (a nil Result and an error) or "panic"; detected, loaded, scores and picked record
\* what the call did: whether DetectDomain and loadCSV ran, the score of every
\* document, and the Index of each record returned.
NoOutcome ==
    [kind |-> "none", err |-> "", Domain |-> "", Query |-> <<>>, File |-> "", Count |-> 0,
     Results |-> <<>>, detected |-> FALSE, loaded |-> FALSE, scores |-> <<>>,
     picked |-> <<>>]

\* Search from "BM25 search" on, with the dataset loaded
SearchRanked(base, config, data, ties, query, maxResults) ==
    LET documents == Eager([i \in 1..Len(data) |-> Document(config, data[i])])
        engine    == Fit(New([n |-> 3, d |-> 2], [n |-> 3, d |-> 4]), documents)
        scored    == Score(engine, query)
        scores    == Eager([i \in 1..Len(scored.val) |-> scored.val[i].Score])
    IN  IF scored.kind = "panic"
        THEN {[base EXCEPT !.kind = "panic", !.Domain = ""]}
        ELSE IF maxResults < 0     \* make([]map[string]string, 0, maxResults) panics
        THEN {[base EXCEPT !.kind = "panic", !.Domain = "", !.scores = scores]}
        ELSE {LET sorted == SortSlice(scored.val, ties)
                  picked == TopResults(sorted, 1, maxResults, <<>>)
              IN  [base EXCEPT !.kind = "result",
                               !.Query = query,
                               !.File = config.File,
                               !.Count = Len(picked),
                               !.Results = [i \in 1..Len(picked) |->
                                              Project(config, data[picked[i] + 1])],
                               !.scores = scores,
                               !.picked = picked]}

\* Search once the domain is resolved
SearchIn(st, ties, query, domain, detected, maxResults) ==
    LET base == [NoOutcome EXCEPT !.Domain = domain, !.detected = detected]
    IN  IF domain \notin DOMAIN DomainConfigs
        THEN {[base EXCEPT !.kind = "error", !.err = "unknown domain", !.Domain = ""]}
        ELSE LET config == DomainConfigs[domain]
                 loaded == loadCSV(st[config.File])
             IN  IF loaded.err # ""
                 THEN {[base EXCEPT !.kind = "error", !.err = loaded.err, !.Domain = "",
                                    !.loaded = TRUE]}
                 ELSE SearchRanked([base EXCEPT !.loaded = TRUE], config, loaded.data,
                                   ties, query, maxResults)

\* A seeded fault: the domain argument is ignored and the domain always detected.
SearchDetectsAlways(st, ties, query, domain, maxResults) ==
    UNION {SearchIn(st, ties, query, d, TRUE, maxResults) : d \in DetectDomain(query)}

\* Search: every outcome the call can have
Search(st, ties, query, domain, maxResults) ==
    IF domain = ""
    THEN UNION {SearchIn(st, ties, query, d, TRUE, maxResults) : d \in DetectDomain(query)}
    ELSE SearchIn(st, ties, query, domain, FALSE, maxResults)

-----------------------------------------------------------------------------
(* Inputs *)

\* the pieces a Tokenize input is put together from
Pieces == {<<"R", "s", "i">>, <<"x", "_", "1">>, <<"a", "b">>, <<" ">>, <<"-">>, <<",">>, <<"7">>, <<"\t">>}

TokenizeInputs == {Concat(ps) : ps \in SeqsUpTo(Pieces, MaxPieces)}

\* the words a DetectDomain query is put together from
DetectWords ==
    {<<"v", "w", "a", "p">>,
     <<"r", "s", "i">>,
     <<"M", "A", "C", "D">>,
     <<"c", "v", "a", "r">>,
     <<"s", "t", "o", "p", "-", "l", "o", "s", "s">>,
     <<"o", "r", "d", "e", "r", " ", "b", "o", "o", "k">>,
     <<"d", "o", "n", "'", "t">>,
     <<"m", "l", "o", "p", "s">>,
     <<"z", "z", "z", "_", "n", "o", "_", "s", "u", "c", "h", "_", "t", "e", "r", "m">>}

DetectQueries == {Join(ws) : ws \in SeqsUpTo(DetectWords, MaxWords)}

\* the documents a collection passed to Fit is made of
DocTexts ==
    {<<"r", "s", "i", " ", "v", "w", "a", "p">>,
     <<"R", "S", "I", ",", " ", "r", "s", "i", " ", "a", "t">>}

Collections == SeqsUpTo(DocTexts, MaxDocs)

\* the queries passed to Score and to Search
Q_vwap    == <<"v", "w", "a", "p">>
Q_rsi     == <<"r", "s", "i">>
Q_two     == <<"R", "s", "i", ",", " ", "V", "W", "A", "P", "!">>
Q_nomatch == <<"z", "z", "z", "_", "n", "o", "_", "s", "u", "c", "h", "_", "t", "e", "r", "m">>

Queries == {Q_vwap, Q_rsi, Q_two, Q_nomatch, <<>>}

\* a query that repeats a token, and the queries passed to Score on the engine
Q_twice == <<"r", "s", "i", " ", "r", "s", "i">>

EngineQueries == Queries \cup {Q_twice}

\* the domain arguments of Search: none, two configured ones and an unknown one
DomainArgs == {"", "indicator", "risk", "nonexistent"}

MaxResultsArgs == (0 - 1)..MaxResults

\* The header of a domain's dataset: its first search column, Keywords (searched and
\* output), its last output column (output only) and a column that is neither.
Header(domain) ==
    LET config == DomainConfigs[domain]
    IN  <<config.SearchCols[1], "Keywords", config.OutputCols[Len(config.OutputCols)],
          "Notes">>

\* data rows: two that score the same for "vwap" and differently for "rsi", and one
\* whose search columns hold no token
Row_rsi  == <<<<"R", "S", "I">>, <<"r", "s", "i", ",", " ", "v", "w", "a", "p">>, <<"p", "1">>, <<"z", "z", "z", "_", "n", "o", "_", "s", "u", "c", "h", "_", "t", "e", "r", "m">>>>
Row_macd == <<<<"M", "A", "C", "D">>, <<"m", "a", "c", "d", ",", " ", "v", "w", "a", "p">>, <<"p", "2">>, <<>>>>
Row_none == <<<<"a", "t">>, <<>>, <<"p", "3">>, <<"r", "s", "i">>>>

Rows == {Row_rsi, Row_macd, Row_none}

\* what the data rows of every dataset file can be; "ragged" is a file with a data row
\* one cell short
Shapes ==
    {[kind |-> k, rows |-> <<>>] : k \in {"missing", "empty", "ragged"}}
    \cup {[kind |-> "rows", rows |-> rs] : rs \in SeqsUpTo(Rows, MaxRows)}

FileOf(domain, shape) ==
    IF shape.kind = "missing" THEN [exists |-> FALSE, records |-> <<>>]
    ELSE IF shape.kind = "empty" THEN [exists |-> TRUE, records |-> <<>>]
    ELSE IF shape.kind = "ragged"
    THEN [exists |-> TRUE,
          records |-> <<Header(domain), Row_rsi, SubSeq(Row_macd, 1, 3)>>]
    ELSE [exists |-> TRUE, records |-> <<Header(domain)>> \o shape.rows]

DomainOfFile(f) == CHOOSE domain \in DomainNames : DomainConfigs[domain].File = f

StoreOf(shape) ==
    [f \in {DomainConfigs[domain].File : domain \in DomainNames} |->
        FileOf(DomainOfFile(f), shape)]

\* the orders in which a sort can leave n elements that compare equal
TieOrders(n) ==
    {o \in [1..n -> 0..(n - 1)] : \A i, j \in 1..n : i # j => o[i] # o[j]}

\* the number of data rows of the files of a shape
DataRows(shape) == IF shape.kind = "ragged" THEN 2 ELSE Len(shape.rows)

-----------------------------------------------------------------------------
(* State machine *)

NotRun == [done |-> FALSE, val |-> <<>>]
NoDomain == [done |-> FALSE, val |-> ""]
NoCall == [made |-> FALSE, query |-> <<>>, domain |-> "", maxResults |-> 0]
NotScored == [kind |-> "none", val |-> <<>>]
NoScore == [made |-> FALSE, query |-> <<>>, out |-> NotScored]

\* the state the variables of the other components rest in
TokIdle    == text = <<>> /\ tokens = NotRun
DetIdle    == dquery = <<>> /\ dout = NoDomain /\ dprev = NoDomain
EngineIdle == bm = New([n |-> 3, d |-> 2], [n |-> 3, d |-> 4]) /\ fitted = <<>>
              /\ ranked = NotScored /\ squery = <<>> /\ sfirst = NoScore
SearchIdle == store = StoreOf([kind |-> "missing", rows |-> <<>>]) /\ sortTies = <<>>
              /\ call = NoCall /\ out = NoOutcome /\ prev = NoOutcome

\* a call of Tokenize on the input text
TokenizeCall ==
    /\ ~tokens.done
    /\ tokens' = [done |-> TRUE, val |-> Tokenize(text)]
    /\ UNCHANGED <<text, detVars, engineVars, searchVars>>

\* a call of DetectDomain
DetectDomainCall ==
    \E query \in DetectQueries :
        /\ dout.done => query = dquery
        /\ \E domain \in DetectDomain(query) :
            /\ dquery' = query
            /\ dout' = [done |-> TRUE, val |-> domain]
            /\ dprev' = IF dout.done THEN dout ELSE NoDomain
            /\ UNCHANGED <<tokVars, engineVars, searchVars>>

\* bm25.New(1.5, 0.75)
NewCall ==
    /\ bm' = New([n |-> 3, d |-> 2], [n |-> 3, d |-> 4])
    /\ fitted' = <<>>
    /\ ranked' = NotScored
    /\ squery' = <<>>
    /\ sfirst' = NoScore
    /\ UNCHANGED <<tokVars, detVars, searchVars>>

\* a call of Fit on the engine
FitCall ==
    \E documents \in Collections :
        /\ Len(fitted) < MaxFits
        /\ bm' = Fit(bm, documents)
        /\ fitted' = Append(fitted, documents)
        /\ ranked' = NotScored
        /\ squery' = <<>>
        /\ sfirst' = NoScore
        /\ UNCHANGED <<tokVars, detVars, searchVars>>

\* a call of Score on the engine
ScoreCall ==
    \E query \in EngineQueries :
        /\ ranked' = Score(bm, query)
        /\ bm' = AfterScore(bm, query)
        /\ squery' = query
        /\ sfirst' = IF sfirst.made THEN sfirst
                      ELSE [made |-> TRUE, query |-> query, out |-> Score(bm, query)]
        /\ UNCHANGED <<fitted, tokVars, detVars, searchVars>>

\* a call of Search against the record store
SearchCall ==
    \E query \in Queries, domain \in DomainArgs, maxResults \in MaxResultsArgs :
        /\ call.made => (query = call.query /\ domain = call.domain
                         /\ maxResults = call.maxResults)
        /\ \E o \in Search(store, sortTies, query, domain, maxResults) :
            /\ call' = [made |-> TRUE, query |-> query, domain |-> domain,
                        maxResults |-> maxResults]
            /\ out' = o
            /\ prev' = IF call.made THEN out ELSE NoOutcome
            /\ UNCHANGED <<store, sortTies, tokVars, detVars, engineVars>>

\* Search against a record store
Init == TokIdle /\ DetIdle /\ EngineIdle
        /\ \E shape \in Shapes :
              /\ store = StoreOf(shape)
              /\ sortTies \in TieOrders(DataRows(shape))
        /\ call = NoCall /\ out = NoOutcome /\ prev = NoOutcome
Next == SearchCall
Spec == Init /\ [][Next]_vars

\* Tokenize on bounded inputs
InitTokenize == text \in TokenizeInputs /\ tokens = NotRun
                /\ DetIdle /\ EngineIdle /\ SearchIdle
NextTokenize == TokenizeCall
SpecTokenize == InitTokenize /\ [][NextTokenize]_vars

\* DetectDomain on bounded queries
InitDetect == TokIdle /\ DetIdle /\ EngineIdle /\ SearchIdle
NextDetect == DetectDomainCall
SpecDetect == InitDetect /\ [][NextDetect]_vars

\* one engine: New, Fit and Score in any order
InitEngine == TokIdle /\ DetIdle /\ EngineIdle /\ SearchIdle
NextEngine == NewCall \/ FitCall \/ ScoreCall
SpecEngine == InitEngine /\ [][NextEngine]_vars

-----------------------------------------------------------------------------
(* Properties *)

Min(a, b) == IF a < b THEN a ELSE b

Zero == Fl(0)

\* the documents of an outcome whose score is > 0, counted from 1
PositiveDocs(o) == {i \in 1..Len(o.scores) : FGt(o.scores[i], Zero)}

\* an outcome with a nil Result
NilResult(o) ==
    o.Domain = "" /\ o.Query = <<>> /\ o.File = "" /\ o.Count = 0 /\ o.Results = <<>>

\* the domains the last Search call can resolve its domain argument to
ResolvedDomains ==
    IF call.domain = "" THEN DetectDomain(call.query)
    ELSE {call.domain} \cap DOMAIN DomainConfigs

\* the dataset file of a domain cannot be opened or has fewer than two rows
Unloadable(domain) ==
    LET file == store[DomainConfigs[domain].File]
    IN  ~file.exists \/ Len(file.records) < 2

\* no token of the query is a token of a document of the domain's dataset
NoOverlap(domain, query) ==
    LET config == DomainConfigs[domain]
        data   == loadCSV(store[config.File]).data
    IN  \A i \in 1..Len(data) :
            Range(Tokenize(query)) \cap Range(Tokenize(Document(config, data[i]))) = {}

\* C1: when Search returns a Result for maxResults >= 1, every record returned belongs
\* to a document whose score is > 0, Count is the length of Results, and Count is at
\* most maxResults and at most the number of documents with a score > 0.
C1_Exclusion ==
    (out.kind = "result" /\ call.maxResults >= 1) =>
        /\ Len(out.picked) = Len(out.Results)
        /\ \A i \in 1..Len(out.picked) : (out.picked[i] + 1) \in PositiveDocs(out)
        /\ out.Count = Len(out.Results)
        /\ out.Count <= call.maxResults
        /\ out.Count <= Cardinality(PositiveDocs(out))

\* a Result of one record from a dataset of two, the other excluded for its score
C1_Witness ==
    /\ out.kind = "result"
    /\ call.maxResults = 2
    /\ Len(out.scores) = 2
    /\ Cardinality(PositiveDocs(out)) = 1
    /\ out.Count = 1

\* C2: two Search calls with the same arguments against an unchanged record store have
\* the same outcome: the same Domain, the same Count and the same Results in the same
\* order.  (A call after the first repeats the arguments of the first.)
C2_Deterministic ==
    prev.kind # "none" =>
        /\ prev.kind = out.kind
        /\ prev.err = out.err
        /\ prev.Domain = out.Domain
        /\ prev.Count = out.Count
        /\ prev.Results = out.Results

\* C3: DetectDomain returns a domain whose keyword match count is maximal; when exactly
\* one domain has a match count > 0 it returns that domain, and when every count is 0 it
\* returns "strategy".
C3_DetectMaximal ==
    dout.done =>
        LET scores == DomainScores(dquery)
        IN  /\ \A d \in DomainNames : scores[dout.val] >= scores[d]
            /\ \A a \in DomainNames :
                   (scores[a] > 0 /\ \A d \in DomainNames \ {a} : scores[d] = 0)
                       => dout.val = a
            /\ (\A d \in DomainNames : scores[d] = 0) => dout.val = "strategy"

\* a query with triggers of indicator alone, resolved to indicator
C3_Witness ==
    /\ dout.done
    /\ dout.val = "indicator"
    /\ DomainScores(dquery)["indicator"] > 0
    /\ \A d \in DomainNames \ {"indicator"} : DomainScores(dquery)[d] = 0

\* C4: DetectDomain is a function of the query: every call with the same query returns
\* the same domain, also when two domains share the highest match count.  (A call after
\* the first repeats the query of the first.)
C4_SameDomainEveryCall ==
    (dout.done /\ dprev.done) => dout.val = dprev.val

\* the records of a Result as C5 states them: the first k of the documents with a score
\* > 0, by score descending and, for equal scores, by position in the dataset
StableTop(o, k) ==
    LET pos == PositiveDocs(o)
        Outranks(i, j) == \/ FGt(o.scores[i], o.scores[j])
                          \/ (o.scores[i] = o.scores[j] /\ i < j)
    IN  [r \in 1..k |->
            CHOOSE i \in pos : Cardinality({j \in pos : Outranks(j, i)}) = r - 1]

\* C5: for maxResults >= 1 the Results are exactly the first min(maxResults, P) records
\* of the ordering by score descending, ties broken by the original record order, where
\* P is the number of documents with a score > 0.
C5_StableTopK ==
    (out.kind = "result" /\ call.maxResults >= 1) =>
        LET k      == Min(call.maxResults, Cardinality(PositiveDocs(out)))
            top    == StableTop(out, k)
            config == DomainConfigs[out.Domain]
            data   == loadCSV(store[config.File]).data
        IN  out.Results = [r \in 1..k |-> Project(config, data[top[r]])]

\* C6: a Search call with a non-empty domain that is no key of DomainConfigs returns the
\* "unknown domain" error and a nil Result, without DetectDomain or loadCSV having run;
\* with a non-empty configured domain, the Domain of a Result is that domain.
C6_ExplicitDomain ==
    (call.made /\ call.domain # "") =>
        /\ call.domain \notin DOMAIN DomainConfigs =>
               /\ out.kind = "error"
               /\ out.err = "unknown domain"
               /\ NilResult(out)
               /\ ~out.detected
               /\ ~out.loaded
        /\ (call.domain \in DOMAIN DomainConfigs /\ out.kind = "result") =>
               /\ out.Domain = call.domain
               /\ ~out.detected

\* the domain risk, asked for with a query whose only trigger is one of indicator
C6_Witness ==
    /\ call.made
    /\ call.domain = "risk"
    /\ call.query = Q_rsi
    /\ DetectDomain(call.query) = {"indicator"}
    /\ out.kind = "result"
    /\ out.Domain = "risk"

C8_NoMatchIsEmptyResult ==
    (/\ call.made
     /\ ResolvedDomains # {}
     /\ \A d \in ResolvedDomains :
            /\ loadCSV(store[DomainConfigs[d].File]).err = ""
            /\ NoOverlap(d, call.query))
        => /\ out.kind = "result"
           /\ out.err = ""
           /\ out.Count = 0
           /\ out.Results = <<>>

\* the tokens occur in the text s, from position `from` on, one after the other
RECURSIVE OccurInOrder(_, _, _, _)
OccurInOrder(s, toks, i, from) ==
    IF i > Len(toks) THEN TRUE
    ELSE \E p \in from..(Len(s) - Len(toks[i]) + 1) :
            /\ SubSeq(s, p, p + Len(toks[i]) - 1) = toks[i]
            /\ OccurInOrder(s, toks, i + 1, p + Len(toks[i]))

\* C9: every token Tokenize produces is made of lower-case letters, digits and
\* underscores only and is longer than 2, the tokens are in the order in which they
\* occur in the text, and the empty string has no tokens.
C9_Tokens ==
    tokens.done =>
        /\ \A i \in 1..Len(tokens.val) :
               /\ Len(tokens.val[i]) > 2
               /\ Range(tokens.val[i]) \subseteq Range(LowerChars) \cup DigitChars \cup {"_"}
        /\ OccurInOrder(ToLower(text), tokens.val, 1, 1)
        /\ text = <<>> => tokens.val = <<>>

\* a text with an upper-case letter and punctuation that has two different tokens
C9_Witness ==
    /\ tokens.done
    /\ Len(tokens.val) = 2
    /\ tokens.val[1] # tokens.val[2]
    /\ Range(text) \cap Range(UpperChars) # {}
    /\ Range(text) \ (WordChars \cup SpaceChars) # {}

\* the engine has been fitted once since New, on a collection that is not empty
FreshFit == Len(fitted) = 1 /\ Len(fitted[1]) >= 1

\* the documents of the corpus the term occurs in
DocsWith(term) == {i \in 1..Len(bm.corpus) : term \in Range(bm.corpus[i])}

\* C10, as stated: after Fit on a non-empty collection with a fresh engine every IDF is
\* > 0, and a term in every document has a strictly lower IDF than a term in exactly one
\* document, for every collection size N >= 1.
C10_IdfOrderAnySize ==
    FreshFit =>
        /\ \A w \in DOMAIN bm.idf : FGt(bm.idf[w], Zero)
        /\ \A t, u \in DOMAIN bm.idf :
               (Cardinality(DocsWith(t)) = bm.N /\ Cardinality(DocsWith(u)) = 1)
                   => FGt(bm.idf[u], bm.idf[t])

\* C10, amended: after Fit on a non-empty collection with a fresh engine every IDF is
\* > 0, and for every collection size N >= 2 a term in every document has a strictly
\* lower IDF than a term in exactly one document.
C10_IdfOrderFromTwo ==
    FreshFit =>
        /\ \A w \in DOMAIN bm.idf : FGt(bm.idf[w], Zero)
        /\ bm.N >= 2 =>
               \A t, u \in DOMAIN bm.idf :
                   (Cardinality(DocsWith(t)) = bm.N /\ Cardinality(DocsWith(u)) = 1)
                       => FGt(bm.idf[u], bm.idf[t])

\* two documents, one term in both and one term in one of them
C10_Witness ==
    /\ FreshFit
    /\ bm.N = 2
    /\ \E t, u \in DOMAIN bm.idf :
           /\ Cardinality(DocsWith(t)) = 2
           /\ Cardinality(DocsWith(u)) = 1
           /\ FGt(bm.idf[u], bm.idf[t])

\* a fresh engine as Search constructs it
FreshEngine == New([n |-> 3, d |-> 2], [n |-> 3, d |-> 4])

\* the collection of the last Fit call
LastFitted == fitted[Len(fitted)]

\* C11: for a query token with a known IDF, a fixed document length and the avgdl of the
\* Index, the token's contribution idf*tf*(k1+1)/(tf + k1*(1-b+b*docLen/avgdl)) does
\* not decrease when the token's frequency tf in the document grows by one.
C11_TfMonotone ==
    \A w \in DOMAIN bm.idf :
        \A docLen \in Range(bm.docLengths) :
            \A tf \in 0..(docLen - 1) :
                FLe(Term(bm, bm.idf[w], tf, docLen), Term(bm, bm.idf[w], tf + 1, docLen))

\* C12: after a Fit on the empty collection, whatever was fitted before, the Index is
\* empty with avgdl = 0; and Score against an unfit or an empty Index returns the empty
\* sequence and does not fail.
C12_EmptyFitUsable ==
    /\ (fitted # <<>> /\ LastFitted = <<>>) =>
           (bm.N = 0 /\ bm.avgdl = Rat(0, 1))
    /\ ((fitted = <<>> \/ LastFitted = <<>>) /\ ranked.kind # "none") =>
           ranked = [kind |-> "ok", val |-> <<>>]

C14_OnePerDocument ==
    (fitted # <<>> /\ ranked.kind # "none") =>
        /\ ranked.kind = "ok"
        /\ Len(ranked.val) = Len(LastFitted)
        /\ \A i \in 1..Len(ranked.val) : ranked.val[i].Index = i - 1

\* C16: after any sequence of Fit calls the Index (N, docLengths, avgdl, the document
\* frequency and the IDF of every term, and the set of known terms) is the one a fresh
\* engine has after the last Fit call alone.
C16_RebuiltFromScratch ==
    fitted # <<>> =>
        LET fresh == Fit(FreshEngine, LastFitted)
        IN  /\ bm.N = fresh.N
            /\ bm.docLengths = fresh.docLengths
            /\ bm.avgdl = fresh.avgdl
            /\ bm.docFreqs = fresh.docFreqs
            /\ bm.idf = fresh.idf

\* C17: a query that repeats a token scores every document as the query with the token
\* once does: "rsi rsi" as "rsi".
C17_DistinctTokens ==
    (ranked.kind = "ok" /\ squery = Q_twice) => ranked = Score(bm, Q_rsi)

\* the dataset of a domain as loadCSV returns it
DataOf(domain) == loadCSV(store[DomainConfigs[domain].File]).data

\* C15: every record of a Result is the projection of its source record onto the output
\* columns of the domain: its keys are the output columns the source record has, each
\* with the source record's value; no other column is a key, and an output column the
\* source record lacks is no key.
C15_Projection ==
    out.kind = "result" =>
        LET config == DomainConfigs[out.Domain]
            data   == DataOf(out.Domain)
        IN  /\ Len(out.Results) = Len(out.picked)
            /\ \A i \in 1..Len(out.Results) :
                   LET src == data[out.picked[i] + 1]
                       rec == out.Results[i]
                   IN  /\ DOMAIN rec = Range(config.OutputCols) \cap DOMAIN src
                       /\ \A col \in DOMAIN rec : rec[col] = src[col]

\* a record returned from a source record that has a column that is no output column
\* and lacks an output column
C15_Witness ==
    /\ out.kind = "result"
    /\ out.Count >= 1
    /\ LET src == DataOf(out.Domain)[out.picked[1] + 1]
           rec == out.Results[1]
       IN  /\ "Notes" \in DOMAIN src
           /\ "Notes" \notin DOMAIN rec
           /\ "Category" \notin DOMAIN src
           /\ "Category" \notin DOMAIN rec
           /\ "Keywords" \in DOMAIN rec

\* the dataset of every domain the last Search call can resolve to loads
AllLoadable ==
    /\ ResolvedDomains # {}
    /\ \A d \in ResolvedDomains : loadCSV(store[DomainConfigs[d].File]).err = ""

\* C18: for every maxResults <= 0 and a domain whose dataset loads, Search returns a
\* Result with Count 0, empty Results and a nil error.
C18_NonPositiveBound ==
    (call.made /\ call.maxResults <= 0 /\ AllLoadable) =>
        /\ out.kind = "result"
        /\ out.err = ""
        /\ out.Count = 0
        /\ out.Results = <<>>

\* the dataset file has a header and data rows, and a data row with fewer cells than
\* the header
HasShortRow(file) ==
    /\ file.exists
    /\ Len(file.records) >= 2
    /\ \E i \in 2..Len(file.records) : Len(file.records[i]) < Len(file.records[1])

\* C19: a dataset with a data row that has fewer cells than the header loads without an
\* error, and a Search over it does not return an error.
C19_ShortRowLoads ==
    (/\ call.made
     /\ ResolvedDomains # {}
     /\ \A d \in ResolvedDomains : HasShortRow(store[DomainConfigs[d].File]))
        => /\ \A d \in ResolvedDomains : loadCSV(store[DomainConfigs[d].File]).err = ""
           /\ out.kind # "error"
           /\ out.err = ""

\* the fitted engine of a Search call in a domain
EngineOf(domain) ==
    LET config == DomainConfigs[domain]
        data   == DataOf(domain)
    IN  Fit(FreshEngine, [i \in 1..Len(data) |-> Document(config, data[i])])

\* C20: in a Search call a query token has a known IDF only if avgdl > 0, so the term
\* formula is never evaluated with avgdl = 0; every document's score is a number >= 0,
\* and it is > 0 exactly when a token of the query occurs in the document.
C20_ScoresWellDefined ==
    out.kind = "result" =>
        LET engine == EngineOf(out.Domain)
            qtoks  == Range(Tokenize(call.query))
        IN  /\ DOMAIN engine.idf # {} => engine.avgdl.n > 0
            /\ Len(out.scores) = engine.N
            /\ \A i \in 1..Len(out.scores) :
                   /\ ~out.scores[i].nan
                   /\ out.scores[i].v >= 0
                   /\ out.scores[i].v > 0 <=> qtoks \cap Range(engine.corpus[i]) # {}

\* a dataset of a document without tokens and a document with a token of the query:
\* the scores are 0 and > 0
C20_Witness ==
    /\ out.kind = "result"
    /\ Len(out.scores) = 2
    /\ LET engine == EngineOf(out.Domain)
       IN  /\ \E i \in 1..2 : engine.docLengths[i] = 0 /\ out.scores[i] = Zero
           /\ \E i \in 1..2 : engine.docLengths[i] > 0 /\ FGt(out.scores[i], Zero)

\* C21: every key of DomainKeywords and the fallback "strategy" is a key of
\* DomainConfigs, and a Search call with an empty domain detects the domain and never
\* returns the "unknown domain" error: a Result it returns is in a configured domain.
C21_DetectedIsConfigured ==
    /\ (DOMAIN DomainKeywords \cup {"strategy"}) \subseteq DOMAIN DomainConfigs
    /\ (call.made /\ call.domain = "") =>
           /\ out.detected
           /\ out.err # "unknown domain"
           /\ out.kind = "result" => out.Domain \in DOMAIN DomainConfigs

\* a query with no trigger and no domain, searched in the fallback domain strategy
C21_Witness ==
    /\ call.made
    /\ call.domain = ""
    /\ call.query = Q_nomatch
    /\ \A d \in DomainNames : DomainScores(call.query)[d] = 0
    /\ out.detected
    /\ out.kind = "result"
    /\ out.Domain = "strategy"
    /\ out.File = "strategies.csv"

====
